---------------------------- MODULE Spec2Model ----------------------------
(***************************************************************************)
(* RANDAO slice of the beacon-kit state processor, the fork-domain         *)
(* calculator and the randao mix generator.                                *)
(*                                                                         *)
(* Bytes are integers 0..255 and byte strings are sequences of them.       *)
(* Bytes32 values keep their full width of RootLength bytes.  Slots and    *)
(* epochs are uint64 in the source; the model keeps them far below 2^64,   *)
(* so the wrap of epoch+1 at 2^64 is outside the model.                    *)
(***************************************************************************)
EXTENDS Integers, Sequences, FiniteSets, TLC

\* ------------------------------------------------------------------ bounds
\* Chain-spec values (sp.cs.*) and the sizes of the explored state.
EpochsPerHistoricalVector == 3
SlotsPerEpoch == 2
NumValidators == 1
MaxOps == 2

\* The last slot explored: the first slot of epoch EpochsPerHistoricalVector,
\* so that every index of the vector and the wrap to index 0 are visited.
MaxSlot == SlotsPerEpoch * EpochsPerHistoricalVector

\* constants.RootLength
RootLength == 32

\* ------------------------------------------------------------- byte helpers
RECURSIVE XorBits(_, _)
\* a ^ b on two bytes (Go's ^ on uint8), bit by bit.
XorBits(a, b) ==
    IF a = 0 /\ b = 0 THEN 0
    ELSE ((a + b) % 2) + 2 * XorBits(a \div 2, b \div 2)

\* The same as a table, computed once.
XorTable == [a \in 0..255 |-> [b \in 0..255 |-> XorBits(a, b)]]

XorByte(a, b) == XorTable[a][b]

Min(a, b) == IF a <= b THEN a ELSE b

\* xor.Bytes(dst, a, b): n = min(len(dst), len(a), len(b)); dst[i] = a[i]^b[i]
\* for i < n; the rest of dst is left as it was.  Returns the new dst.
XorBytes(dst, a, b) ==
    LET n == Min(Len(dst), Min(Len(a), Len(b)))
    IN  [i \in 1..Len(dst) |-> IF i <= n THEN XorByte(a[i], b[i]) ELSE dst[i]]

\* make([]byte, n)
MakeBytes(n) == [i \in 1..n |-> 0]

\* b zero-padded on the right to RootLength bytes (an SSZ chunk).
PadChunk(b) == [i \in 1..RootLength |-> IF i <= Len(b) THEN b[i] ELSE 0]

RECURSIVE LEBytes(_, _)
\* The k low bytes of n, least significant first.
LEBytes(n, k) == IF k = 0 THEN <<>> ELSE <<n % 256>> \o LEBytes(n \div 256, k - 1)

\* uint64 little-endian, 8 bytes.
Uint64LE(n) == LEBytes(n, 8)

RECURSIVE Absorb(_, _, _)
\* The bytes from position i on folded into acc, eight at a time while eight
\* are left.
Absorb(bytes, i, acc) ==
    IF i > Len(bytes) THEN acc
    ELSE IF i + 7 <= Len(bytes)
    THEN Absorb(bytes, i + 8,
             (acc * 31 + bytes[i] + 3 * bytes[i + 1] + 5 * bytes[i + 2]
                + 7 * bytes[i + 3] + 11 * bytes[i + 4] + 13 * bytes[i + 5]
                + 17 * bytes[i + 6] + 19 * bytes[i + 7] + i) % 65521)
    ELSE Absorb(bytes, i + 1, (acc * 31 + bytes[i] + i) % 65521)

\* sha256.Hash: a deterministic digest of RootLength bytes.  The compression
\* function is a stand-in; only determinism and the output width are relied on.
Sha256(bytes) ==
    LET s == Absorb(bytes, 1, Len(bytes) + 1)
        t == s \div 256
    IN  [k \in 1..RootLength |-> (s * k + t + k) % 256]

\* ----------------------------------------------------------- fork domain
\* ForkData{CurrentVersion (4 bytes), GenesisValidatorsRoot (32 bytes)}
NewForkData(currentVersion, genesisValidatorsRoot) ==
    [CurrentVersion |-> currentVersion,
     GenesisValidatorsRoot |-> genesisValidatorsRoot]

\* ForkData.HashTreeRoot: the Merkle root of a two-field fixed-size container,
\* SHA256(chunk A || chunk B), chunk A the version zero-padded to 32 bytes.
HashTreeRoot(fv) ==
    Sha256(PadChunk(fv.CurrentVersion) \o fv.GenesisValidatorsRoot)

\* Go's append(s, xs...) on a slice s whose capacity equals its length: a new
\* backing array is allocated and s's own array is left as it was.
GoAppend(s, xs) == s \o xs

\* Domain(slice): the conversion of a slice to the array type [32]byte; it
\* takes the first 32 bytes and panics on a shorter slice.
ToDomain(s) == IF Len(s) >= 32 THEN SubSeq(s, 1, 32) ELSE <<"panic">>

\* The mutant: the tail is taken from the end of the root, not its start.
ComputeDomain_RootTail(fv, domainType) ==
    LET forkDataRoot == HashTreeRoot(fv)
    IN  ToDomain(GoAppend(domainType, SubSeq(forkDataRoot, 5, 32)))

\* ForkData.ComputeDomain (its error is HashTreeRoot's, which never fails on a
\* fixed-size container).
ComputeDomain(fv, domainType) ==
    LET forkDataRoot == HashTreeRoot(fv)
    IN  ToDomain(GoAppend(domainType, SubSeq(forkDataRoot, 1, 28)))

\* ForkData.ComputeRandaoSigningRoot: the signing root of the epoch under the
\* randao domain, HashTreeRoot(SigningData{epoch root, domain}).
ComputeRandaoSigningRoot(fv, domainType, epoch) ==
    Sha256(PadChunk(Uint64LE(epoch)) \o ComputeDomain(fv, domainType))

\* ------------------------------------------------------------ chain spec
\* sp.cs.SlotToEpoch
SlotToEpoch(s) == s \div SlotsPerEpoch

\* sp.cs.ActiveForkVersionForEpoch: one fork activates at epoch 2.
ActiveForkVersionForEpoch(epoch) == IF epoch < 2 THEN 1 ELSE 2

\* version.FromUint32: the 4-byte little-endian version.
VersionFromUint32(v) == SubSeq(Uint64LE(v), 1, 4)

\* sp.cs.DomainTypeRandao
DomainTypeRandao == <<2, 0, 0, 0>>

\* ----------------------------------------------------- signer (BLS stand-in)
\* The 48-byte public key of validator i.
PubkeyOf(i) == [k \in 1..48 |-> (i * 37 + k) % 256]

\* The one 96-byte signature that verifies for (pubkey, message): a stand-in
\* for the BLS signature, fixed by the key and the 32-byte message.
Sign(pubkey, msg) == msg \o pubkey \o SubSeq(msg, 1, 16)

Nil == "nil"
ErrInvalidSignature == "InvalidSignature"
ErrInvalidProposer == "InvalidProposer"
ErrStore == "StoreError"

\* sp.signer.VerifySignature(pubkey, message, signature) -> error
VerifySignature(pubkey, msg, signature) ==
    IF signature = Sign(pubkey, msg) THEN Nil ELSE ErrInvalidSignature


\* ------------------------------------------------- beacon state (collaborator)
\* A result of a state accessor: the value and the error.
Ok(v) == [err |-> Nil, val |-> v]
Fail(e) == [err |-> e, val |-> <<>>]

\* The genesis mix every slot of the vector holds at genesis.
GenesisMix == [k \in 1..RootLength |-> (7 * k) % 256]

\* The genesis validators root of the chain.
GenesisValidatorsRoot == [k \in 1..RootLength |-> (11 * k + 5) % 256]

\* The validator registry: validator i holds public key PubkeyOf(i).
Validators == [i \in 0..(NumValidators - 1) |-> [pubkey |-> PubkeyOf(i)]]

\* st.GetSlot()
GetSlot(st, storeFails) ==
    IF storeFails THEN Fail(ErrStore) ELSE Ok(st.slot)

\* st.ValidatorByIndex(i): an error for an index outside the registry.
ValidatorByIndex(st, i, storeFails) ==
    IF storeFails THEN Fail(ErrStore)
    ELSE IF i \notin DOMAIN Validators THEN Fail(ErrInvalidProposer)
    ELSE Ok(Validators[i])

\* st.GetGenesisValidatorsRoot()
GetGenesisValidatorsRoot(st, storeFails) ==
    IF storeFails THEN Fail(ErrStore) ELSE Ok(GenesisValidatorsRoot)

\* st.GetRandaoMixAtIndex(i)
GetRandaoMixAtIndex(st, i, storeFails) ==
    IF storeFails \/ i \notin DOMAIN st.randaoMixes THEN Fail(ErrStore)
    ELSE Ok(st.randaoMixes[i])

\* st.UpdateRandaoMixAtIndex(i, mix): the error and the vector afterwards; a
\* failed write leaves the vector as it was.
UpdateRandaoMixAtIndex(st, i, mix, storeFails) ==
    IF storeFails \/ i \notin DOMAIN st.randaoMixes
    THEN [err |-> ErrStore, randaoMixes |-> st.randaoMixes]
    ELSE [err |-> Nil, randaoMixes |-> [st.randaoMixes EXCEPT ![i] = mix]]

\* The store accesses a call may find failing; "none": the store is healthy.
FailGetSlot == "GetSlot"
FailValidatorByIndex == "ValidatorByIndex"
FailGetGenesisValidatorsRoot == "GetGenesisValidatorsRoot"
FailGetRandaoMixAtIndex == "GetRandaoMixAtIndex"
FailUpdateRandaoMixAtIndex == "UpdateRandaoMixAtIndex"
NoFail == "none"

\* ------------------------------------------------------ state processor
\* The mutant: the reveal is XORed in unhashed.
buildRandaoMix_NoHash(mix, reveal) ==
    LET newMix == MakeBytes(RootLength)
    IN  XorBytes(newMix, mix, reveal)

\* StateProcessor.buildRandaoMix
buildRandaoMix(mix, reveal) ==
    LET newMix == MakeBytes(RootLength)
        revealHash == Sha256(reveal)
    IN  XorBytes(newMix, mix, revealHash)

\* What a call of the processor returns and leaves behind: its error, the mix
\* vector afterwards, and how often it called the signer and the state's update.
Outcome(err, mixes, verifyCalls, updateCalls) ==
    [err |-> err, randaoMixes |-> mixes,
     verifyCalls |-> verifyCalls, updateCalls |-> updateCalls]

\* The mutant: a signer error is dropped and the call goes on to the write.
processRandaoReveal_IgnoreVerifyErr(ctx, st, blk, failAt) ==
    LET slotR == GetSlot(st, failAt = FailGetSlot)
    IN  IF slotR.err # Nil THEN Outcome(slotR.err, st.randaoMixes, 0, 0) ELSE
    LET proposerR == ValidatorByIndex(st, blk.proposerIndex,
                                      failAt = FailValidatorByIndex)
    IN  IF proposerR.err # Nil THEN Outcome(proposerR.err, st.randaoMixes, 0, 0) ELSE
    LET gvrR == GetGenesisValidatorsRoot(st, failAt = FailGetGenesisValidatorsRoot)
    IN  IF gvrR.err # Nil THEN Outcome(gvrR.err, st.randaoMixes, 0, 0) ELSE
    LET epoch == SlotToEpoch(slotR.val)
        body == blk.body
        fd == NewForkData(VersionFromUint32(ActiveForkVersionForEpoch(epoch)),
                          gvrR.val)
        validate == ~ctx.skipValidateRandao
        verifyCalls == IF validate THEN 1 ELSE 0
        verifyErr ==
            IF validate
            THEN VerifySignature(proposerR.val.pubkey,
                     ComputeRandaoSigningRoot(fd, DomainTypeRandao, epoch),
                     body.randaoReveal)
            ELSE Nil
    IN  IF FALSE
        THEN Outcome(verifyErr, st.randaoMixes, verifyCalls, 0) ELSE
    LET prevMixR == GetRandaoMixAtIndex(st, epoch % EpochsPerHistoricalVector,
                                        failAt = FailGetRandaoMixAtIndex)
    IN  IF prevMixR.err # Nil
        THEN Outcome(prevMixR.err, st.randaoMixes, verifyCalls, 0) ELSE
    LET upd == UpdateRandaoMixAtIndex(st, epoch % EpochsPerHistoricalVector,
                   buildRandaoMix(prevMixR.val, body.randaoReveal),
                   failAt = FailUpdateRandaoMixAtIndex)
    IN  Outcome(upd.err, upd.randaoMixes, verifyCalls, 1)

\* The mutant: an error of the read of the previous mix is dropped; the zero
\* value the failed read returned is mixed and written.
processRandaoReveal_IgnoreMixErr(ctx, st, blk, failAt) ==
    LET slotR == GetSlot(st, failAt = FailGetSlot)
    IN  IF slotR.err # Nil THEN Outcome(slotR.err, st.randaoMixes, 0, 0) ELSE
    LET proposerR == ValidatorByIndex(st, blk.proposerIndex,
                                      failAt = FailValidatorByIndex)
    IN  IF proposerR.err # Nil THEN Outcome(proposerR.err, st.randaoMixes, 0, 0) ELSE
    LET gvrR == GetGenesisValidatorsRoot(st, failAt = FailGetGenesisValidatorsRoot)
    IN  IF gvrR.err # Nil THEN Outcome(gvrR.err, st.randaoMixes, 0, 0) ELSE
    LET epoch == SlotToEpoch(slotR.val)
        body == blk.body
        fd == NewForkData(VersionFromUint32(ActiveForkVersionForEpoch(epoch)),
                          gvrR.val)
        validate == ~ctx.skipValidateRandao
        verifyCalls == IF validate THEN 1 ELSE 0
        verifyErr ==
            IF validate
            THEN VerifySignature(proposerR.val.pubkey,
                     ComputeRandaoSigningRoot(fd, DomainTypeRandao, epoch),
                     body.randaoReveal)
            ELSE Nil
    IN  IF verifyErr # Nil
        THEN Outcome(verifyErr, st.randaoMixes, verifyCalls, 0) ELSE
    LET prevMixR == GetRandaoMixAtIndex(st, epoch % EpochsPerHistoricalVector,
                                        failAt = FailGetRandaoMixAtIndex)
    IN  IF FALSE
        THEN Outcome(prevMixR.err, st.randaoMixes, verifyCalls, 0) ELSE
    LET upd == UpdateRandaoMixAtIndex(st, epoch % EpochsPerHistoricalVector,
                   buildRandaoMix(IF prevMixR.err = Nil THEN prevMixR.val
                                  ELSE MakeBytes(RootLength), body.randaoReveal),
                   failAt = FailUpdateRandaoMixAtIndex)
    IN  Outcome(upd.err, upd.randaoMixes, verifyCalls, 1)

\* The mutant: the skip flag of the context is not consulted.
processRandaoReveal_AlwaysVerify(ctx, st, blk, failAt) ==
    LET slotR == GetSlot(st, failAt = FailGetSlot)
    IN  IF slotR.err # Nil THEN Outcome(slotR.err, st.randaoMixes, 0, 0) ELSE
    LET proposerR == ValidatorByIndex(st, blk.proposerIndex,
                                      failAt = FailValidatorByIndex)
    IN  IF proposerR.err # Nil THEN Outcome(proposerR.err, st.randaoMixes, 0, 0) ELSE
    LET gvrR == GetGenesisValidatorsRoot(st, failAt = FailGetGenesisValidatorsRoot)
    IN  IF gvrR.err # Nil THEN Outcome(gvrR.err, st.randaoMixes, 0, 0) ELSE
    LET epoch == SlotToEpoch(slotR.val)
        body == blk.body
        fd == NewForkData(VersionFromUint32(ActiveForkVersionForEpoch(epoch)),
                          gvrR.val)
        validate == TRUE
        verifyCalls == IF validate THEN 1 ELSE 0
        verifyErr ==
            IF validate
            THEN VerifySignature(proposerR.val.pubkey,
                     ComputeRandaoSigningRoot(fd, DomainTypeRandao, epoch),
                     body.randaoReveal)
            ELSE Nil
    IN  IF verifyErr # Nil
        THEN Outcome(verifyErr, st.randaoMixes, verifyCalls, 0) ELSE
    LET prevMixR == GetRandaoMixAtIndex(st, epoch % EpochsPerHistoricalVector,
                                        failAt = FailGetRandaoMixAtIndex)
    IN  IF prevMixR.err # Nil
        THEN Outcome(prevMixR.err, st.randaoMixes, verifyCalls, 0) ELSE
    LET upd == UpdateRandaoMixAtIndex(st, epoch % EpochsPerHistoricalVector,
                   buildRandaoMix(prevMixR.val, body.randaoReveal),
                   failAt = FailUpdateRandaoMixAtIndex)
    IN  Outcome(upd.err, upd.randaoMixes, verifyCalls, 1)

\* The mutant: the new mix is written one slot after the slot read.
processRandaoReveal_WriteNext(ctx, st, blk, failAt) ==
    LET slotR == GetSlot(st, failAt = FailGetSlot)
    IN  IF slotR.err # Nil THEN Outcome(slotR.err, st.randaoMixes, 0, 0) ELSE
    LET proposerR == ValidatorByIndex(st, blk.proposerIndex,
                                      failAt = FailValidatorByIndex)
    IN  IF proposerR.err # Nil THEN Outcome(proposerR.err, st.randaoMixes, 0, 0) ELSE
    LET gvrR == GetGenesisValidatorsRoot(st, failAt = FailGetGenesisValidatorsRoot)
    IN  IF gvrR.err # Nil THEN Outcome(gvrR.err, st.randaoMixes, 0, 0) ELSE
    LET epoch == SlotToEpoch(slotR.val)
        body == blk.body
        fd == NewForkData(VersionFromUint32(ActiveForkVersionForEpoch(epoch)),
                          gvrR.val)
        validate == ~ctx.skipValidateRandao
        verifyCalls == IF validate THEN 1 ELSE 0
        verifyErr ==
            IF validate
            THEN VerifySignature(proposerR.val.pubkey,
                     ComputeRandaoSigningRoot(fd, DomainTypeRandao, epoch),
                     body.randaoReveal)
            ELSE Nil
    IN  IF verifyErr # Nil
        THEN Outcome(verifyErr, st.randaoMixes, verifyCalls, 0) ELSE
    LET prevMixR == GetRandaoMixAtIndex(st, epoch % EpochsPerHistoricalVector,
                                        failAt = FailGetRandaoMixAtIndex)
    IN  IF prevMixR.err # Nil
        THEN Outcome(prevMixR.err, st.randaoMixes, verifyCalls, 0) ELSE
    LET upd == UpdateRandaoMixAtIndex(st, (epoch + 1) % EpochsPerHistoricalVector,
                   buildRandaoMix(prevMixR.val, body.randaoReveal),
                   failAt = FailUpdateRandaoMixAtIndex)
    IN  Outcome(upd.err, upd.randaoMixes, verifyCalls, 1)

\* StateProcessor.processRandaoReveal(ctx, st, blk).  failAt names the store
\* access that fails in this call, if one does.
processRandaoReveal(ctx, st, blk, failAt) ==
    LET slotR == GetSlot(st, failAt = FailGetSlot)
    IN  IF slotR.err # Nil THEN Outcome(slotR.err, st.randaoMixes, 0, 0) ELSE
    LET proposerR == ValidatorByIndex(st, blk.proposerIndex,
                                      failAt = FailValidatorByIndex)
    IN  IF proposerR.err # Nil THEN Outcome(proposerR.err, st.randaoMixes, 0, 0) ELSE
    LET gvrR == GetGenesisValidatorsRoot(st, failAt = FailGetGenesisValidatorsRoot)
    IN  IF gvrR.err # Nil THEN Outcome(gvrR.err, st.randaoMixes, 0, 0) ELSE
    LET epoch == SlotToEpoch(slotR.val)
        body == blk.body
        fd == NewForkData(VersionFromUint32(ActiveForkVersionForEpoch(epoch)),
                          gvrR.val)
        validate == ~ctx.skipValidateRandao
        verifyCalls == IF validate THEN 1 ELSE 0
        verifyErr ==
            IF validate
            THEN VerifySignature(proposerR.val.pubkey,
                     ComputeRandaoSigningRoot(fd, DomainTypeRandao, epoch),
                     body.randaoReveal)
            ELSE Nil
    IN  IF verifyErr # Nil
        THEN Outcome(verifyErr, st.randaoMixes, verifyCalls, 0) ELSE
    LET prevMixR == GetRandaoMixAtIndex(st, epoch % EpochsPerHistoricalVector,
                                        failAt = FailGetRandaoMixAtIndex)
    IN  IF prevMixR.err # Nil
        THEN Outcome(prevMixR.err, st.randaoMixes, verifyCalls, 0) ELSE
    LET upd == UpdateRandaoMixAtIndex(st, epoch % EpochsPerHistoricalVector,
                   buildRandaoMix(prevMixR.val, body.randaoReveal),
                   failAt = FailUpdateRandaoMixAtIndex)
    IN  Outcome(upd.err, upd.randaoMixes, verifyCalls, 1)

\* The mutant: the mix carried forward is read from the target slot.
processRandaoMixesReset_ReadNext(st, failAt) ==
    LET slotR == GetSlot(st, failAt = FailGetSlot)
    IN  IF slotR.err # Nil THEN Outcome(slotR.err, st.randaoMixes, 0, 0) ELSE
    LET epoch == SlotToEpoch(slotR.val)
        mixR == GetRandaoMixAtIndex(st, (epoch + 1) % EpochsPerHistoricalVector,
                                    failAt = FailGetRandaoMixAtIndex)
    IN  IF mixR.err # Nil THEN Outcome(mixR.err, st.randaoMixes, 0, 0) ELSE
    LET upd == UpdateRandaoMixAtIndex(st, (epoch + 1) % EpochsPerHistoricalVector,
                   mixR.val, failAt = FailUpdateRandaoMixAtIndex)
    IN  Outcome(upd.err, upd.randaoMixes, 0, 1)

\* The mutant: the target slot is cleared to the zero mix, not seeded with the
\* carried one.
processRandaoMixesReset_Clear(st, failAt) ==
    LET slotR == GetSlot(st, failAt = FailGetSlot)
    IN  IF slotR.err # Nil THEN Outcome(slotR.err, st.randaoMixes, 0, 0) ELSE
    LET epoch == SlotToEpoch(slotR.val)
        mixR == GetRandaoMixAtIndex(st, epoch % EpochsPerHistoricalVector,
                                    failAt = FailGetRandaoMixAtIndex)
    IN  IF mixR.err # Nil THEN Outcome(mixR.err, st.randaoMixes, 0, 0) ELSE
    LET upd == UpdateRandaoMixAtIndex(st, (epoch + 1) % EpochsPerHistoricalVector,
                   MakeBytes(RootLength), failAt = FailUpdateRandaoMixAtIndex)
    IN  Outcome(upd.err, upd.randaoMixes, 0, 1)

\* The mutant: a target slot that no longer holds the genesis mix is taken as
\* already written and is left alone.
processRandaoMixesReset_KeepWritten(st, failAt) ==
    LET slotR == GetSlot(st, failAt = FailGetSlot)
    IN  IF slotR.err # Nil THEN Outcome(slotR.err, st.randaoMixes, 0, 0) ELSE
    LET epoch == SlotToEpoch(slotR.val)
        mixR == GetRandaoMixAtIndex(st, epoch % EpochsPerHistoricalVector,
                                    failAt = FailGetRandaoMixAtIndex)
    IN  IF mixR.err # Nil THEN Outcome(mixR.err, st.randaoMixes, 0, 0) ELSE
    IF st.randaoMixes[(epoch + 1) % EpochsPerHistoricalVector] # GenesisMix
    THEN Outcome(Nil, st.randaoMixes, 0, 0) ELSE
    LET upd == UpdateRandaoMixAtIndex(st, (epoch + 1) % EpochsPerHistoricalVector,
                   mixR.val, failAt = FailUpdateRandaoMixAtIndex)
    IN  Outcome(upd.err, upd.randaoMixes, 0, 1)

\* StateProcessor.processRandaoMixesReset(st)
processRandaoMixesReset(st, failAt) ==
    LET slotR == GetSlot(st, failAt = FailGetSlot)
    IN  IF slotR.err # Nil THEN Outcome(slotR.err, st.randaoMixes, 0, 0) ELSE
    LET epoch == SlotToEpoch(slotR.val)
        mixR == GetRandaoMixAtIndex(st, epoch % EpochsPerHistoricalVector,
                                    failAt = FailGetRandaoMixAtIndex)
    IN  IF mixR.err # Nil THEN Outcome(mixR.err, st.randaoMixes, 0, 0) ELSE
    LET upd == UpdateRandaoMixAtIndex(st, (epoch + 1) % EpochsPerHistoricalVector,
                   mixR.val, failAt = FailUpdateRandaoMixAtIndex)
    IN  Outcome(upd.err, upd.randaoMixes, 0, 1)


\* ------------------------------------------------------------- the state
VARIABLES
    slot,          \* BeaconState: the current slot
    randaoMixes,   \* BeaconState: the randao mix vector, index 0..V-1
    ops,           \* the number of processor calls that succeeded so far
    last,          \* the last processor call: its inputs, the state before, its outcome
    writer,        \* per slot of the vector, the operation that wrote it last
    scen,          \* the progress of a reset / epoch change / reveal sequence
    mixIn,         \* buildRandaoMix: the previous mix passed in
    revealIn,      \* buildRandaoMix: the reveal passed in
    mixOut,        \* buildRandaoMix: the result, <<>> before the call
    forkData,      \* ComputeDomain: the caller's ForkData
    domainTypes,   \* ComputeDomain: the caller's two domain types
    domains        \* ComputeDomain: the two results, <<>> before the call

randaoVars == <<slot, randaoMixes, ops, last, writer, scen>>
mixVars == <<mixIn, revealIn, mixOut>>
domainVars == <<forkData, domainTypes, domains>>
vars == <<slot, randaoMixes, ops, last, writer, scen,
          mixIn, revealIn, mixOut, forkData, domainTypes, domains>>

Indices == 0..(EpochsPerHistoricalVector - 1)

\* The reads of processRandaoReveal that precede its write.
RevealReads == {FailGetSlot, FailValidatorByIndex, FailGetGenesisValidatorsRoot,
                FailGetRandaoMixAtIndex}
RevealFailPoints == RevealReads \cup {FailUpdateRandaoMixAtIndex, NoFail}
ResetFailPoints == {FailGetSlot, FailGetRandaoMixAtIndex,
                    FailUpdateRandaoMixAtIndex, NoFail}

\* The message a proposer signs for its randao reveal in `epoch`.
RandaoSigningRoot(epoch) ==
    ComputeRandaoSigningRoot(
        NewForkData(VersionFromUint32(ActiveForkVersionForEpoch(epoch)),
                    GenesisValidatorsRoot),
        DomainTypeRandao, epoch)

\* The reveals a block may carry in `epoch`: each validator's valid reveal, and
\* validator 0's reveal for the next epoch (valid then, forged now).
Reveals(epoch) ==
    {Sign(PubkeyOf(i), RandaoSigningRoot(epoch)) : i \in 0..(NumValidators - 1)}
        \cup {Sign(PubkeyOf(0), RandaoSigningRoot(epoch + 1))}

NoCall ==
    [op |-> "none", err |-> Nil, pre |-> <<>>, preWriter |-> <<>>, epoch |-> 0,
     skip |-> FALSE, proposerIndex |-> 0, reveal |-> <<>>, failAt |-> NoFail,
     verifyCalls |-> 0, updateCalls |-> 0]

NoScen == [stage |-> "idle", e |-> 0, X |-> <<>>, R |-> <<>>]

MixIdle == mixIn = <<>> /\ revealIn = <<>> /\ mixOut = <<>>
DomainIdle == forkData = <<>> /\ domainTypes = <<>> /\ domains = <<>>
RandaoIdle ==
    /\ slot = 0
    /\ randaoMixes = [i \in Indices |-> GenesisMix]
    /\ ops = 0
    /\ last = NoCall
    /\ writer = [i \in Indices |-> "genesis"]
    /\ scen = NoScen

\* The state at genesis: slot 0, every slot of the vector the genesis mix.
Init == RandaoIdle /\ MixIdle /\ DomainIdle

\* processRandaoReveal on a block with any proposer index, one past the
\* registry included, any reveal, with or without validation, and any one
\* failing store access.
ProcessRandaoReveal ==
    /\ last.op = "none"
    /\ ops < MaxOps
    /\ \E skip \in BOOLEAN, proposerIndex \in 0..NumValidators,
          reveal \in Reveals(SlotToEpoch(slot)), failAt \in RevealFailPoints :
        LET st == [slot |-> slot, randaoMixes |-> randaoMixes]
            ctx == [skipValidateRandao |-> skip]
            blk == [proposerIndex |-> proposerIndex,
                    body |-> [randaoReveal |-> reveal]]
            r == processRandaoReveal(ctx, st, blk, failAt)
            epoch == SlotToEpoch(slot)
        IN  /\ randaoMixes' = r.randaoMixes
            /\ last' = [op |-> "reveal", err |-> r.err, pre |-> randaoMixes,
                        preWriter |-> writer, epoch |-> epoch, skip |-> skip,
                        proposerIndex |-> proposerIndex, reveal |-> reveal,
                        failAt |-> failAt, verifyCalls |-> r.verifyCalls,
                        updateCalls |-> r.updateCalls]
            /\ writer' = [i \in Indices |->
                            IF r.randaoMixes[i] # randaoMixes[i]
                            THEN "reveal" ELSE writer[i]]
            /\ scen' = IF scen.stage = "advanced" /\ r.err = Nil
                       THEN [scen EXCEPT !.stage = "done", !.R = reveal]
                       ELSE NoScen
            /\ ops' = IF r.err = Nil THEN ops + 1 ELSE ops
    /\ UNCHANGED <<slot, mixVars, domainVars>>

\* processRandaoMixesReset with any one failing store access.
ProcessRandaoMixesReset ==
    /\ last.op = "none"
    /\ ops < MaxOps
    /\ \E failAt \in ResetFailPoints :
        LET st == [slot |-> slot, randaoMixes |-> randaoMixes]
            r == processRandaoMixesReset(st, failAt)
            epoch == SlotToEpoch(slot)
        IN  /\ randaoMixes' = r.randaoMixes
            /\ last' = [NoCall EXCEPT !.op = "reset", !.err = r.err,
                           !.pre = randaoMixes, !.preWriter = writer,
                           !.epoch = epoch, !.failAt = failAt,
                           !.verifyCalls = r.verifyCalls,
                           !.updateCalls = r.updateCalls]
            /\ writer' = IF r.err = Nil /\ r.updateCalls = 1
                         THEN [writer EXCEPT
                                 ![(epoch + 1) % EpochsPerHistoricalVector] = "reset"]
                         ELSE writer
            /\ scen' = IF r.err = Nil
                       THEN [stage |-> "reset", e |-> epoch,
                             X |-> randaoMixes[epoch % EpochsPerHistoricalVector],
                             R |-> <<>>]
                       ELSE NoScen
            /\ ops' = IF r.err = Nil THEN ops + 1 ELSE ops
    /\ UNCHANGED <<slot, mixVars, domainVars>>

\* The slot processing between blocks: the state's slot moves on by one.
AdvanceSlot ==
    /\ last.op = "none"
    /\ slot < MaxSlot
    /\ slot' = slot + 1
    /\ scen' = IF scen.stage \in {"reset", "advanced"}
                  /\ SlotToEpoch(slot + 1) = scen.e
               THEN scen
               ELSE IF scen.stage \in {"reset", "advanced"}
                       /\ SlotToEpoch(slot + 1) = scen.e + 1
               THEN [scen EXCEPT !.stage = "advanced"]
               ELSE NoScen
    /\ UNCHANGED <<randaoMixes, ops, last, writer, mixVars, domainVars>>

\* The call has returned to the block processing, which goes on: the record
\* of the call is dropped.
CallReturns ==
    /\ last.op # "none"
    /\ last' = NoCall
    /\ scen' = IF scen.stage = "done" THEN NoScen ELSE scen
    /\ UNCHANGED <<slot, randaoMixes, ops, writer, mixVars, domainVars>>

Next ==
    \/ ProcessRandaoReveal
    \/ ProcessRandaoMixesReset
    \/ AdvanceSlot
    \/ CallReturns

Spec == Init /\ [][Next]_vars


\* ------------------------------------------------ buildRandaoMix on its own
ZeroBytes32 == MakeBytes(RootLength)
OnesBytes32 == [k \in 1..RootLength |-> 255]

\* The previous mixes and the reveals buildRandaoMix is applied to.
MixInputs == {GenesisMix, GenesisValidatorsRoot, ZeroBytes32, OnesBytes32}
RevealInputs == Reveals(0) \cup Reveals(1) \cup {[k \in 1..96 |-> 0]}

MixInit ==
    /\ mixIn \in MixInputs
    /\ revealIn \in RevealInputs
    /\ mixOut = <<>>
    /\ RandaoIdle /\ DomainIdle

\* One call of buildRandaoMix on the inputs held.
BuildRandaoMix ==
    /\ mixOut = <<>>
    /\ mixOut' = buildRandaoMix(mixIn, revealIn)
    /\ UNCHANGED <<mixIn, revealIn, randaoVars, domainVars>>

\* The result becomes the previous mix of the next call, as it does from one
\* block's reveal to the next.
NextReveal ==
    /\ mixOut # <<>>
    /\ mixIn' = mixOut
    /\ \E r \in RevealInputs : revealIn' = r
    /\ mixOut' = <<>>
    /\ UNCHANGED <<randaoVars, domainVars>>

MixNext == BuildRandaoMix \/ NextReveal

SpecMix == MixInit /\ [][MixNext]_vars

\* --------------------------------------------------- ComputeDomain on its own
DomainTypes == {<<0, 0, 0, 0>>, <<1, 0, 0, 0>>, DomainTypeRandao,
                <<255, 255, 255, 255>>}
ForkDatas ==
    {NewForkData(VersionFromUint32(v), root) :
        v \in {1, 2, 16777216}, root \in {GenesisValidatorsRoot, ZeroBytes32}}

\* The caller holds a ForkData and two domain types; domains records the
\* arguments as they were when the caller was set up, and the two results.
DomainInit ==
    /\ forkData \in ForkDatas
    /\ domainTypes \in DomainTypes \X DomainTypes
    /\ domains = [fd |-> forkData, dts |-> domainTypes, out |-> << <<>>, <<>> >>]
    /\ RandaoIdle /\ MixIdle

\* forkData.ComputeDomain(domainTypes[i]): receiver and argument are passed by
\* value, so the callee works on copies and the caller's values stay.
ComputeDomainCall(i) ==
    /\ domains.out[i] = <<>>
    /\ domains' = [domains EXCEPT !.out[i] = ComputeDomain(forkData, domainTypes[i])]
    /\ UNCHANGED <<forkData, domainTypes, randaoVars, mixVars>>

ComputeDomainFirst == ComputeDomainCall(1)
ComputeDomainSecond == ComputeDomainCall(2)

DomainNext == ComputeDomainFirst \/ ComputeDomainSecond

SpecDomain == DomainInit /\ [][DomainNext]_vars


\* ------------------------------------------------------------- the claims
V == EpochsPerHistoricalVector

\* Whether `reveal` is the valid randao reveal of validator i for `epoch`.
RevealVerifies(i, epoch, reveal) ==
    VerifySignature(PubkeyOf(i), RandaoSigningRoot(epoch), reveal) = Nil

\* The last call was processRandaoReveal and got as far as the signature
\* check: no read before it failed and the proposer is in the registry.
RevealReachedVerify ==
    /\ last.op = "reveal"
    /\ last.proposerIndex \in DOMAIN Validators
    /\ last.failAt \notin {FailGetSlot, FailValidatorByIndex,
                           FailGetGenesisValidatorsRoot}

\* C1: process_randao_reveal with validation enabled and a reveal that does
\* not verify against the proposer's key returns InvalidSignature, never calls
\* update_randao_mix_at_index and leaves every slot of the mix vector as it was.
C1_ForgedRevealRejected ==
    (RevealReachedVerify /\ ~last.skip
        /\ ~RevealVerifies(last.proposerIndex, last.epoch, last.reveal))
    => /\ last.err = ErrInvalidSignature
       /\ last.updateCalls = 0
       /\ randaoMixes = last.pre

C1_Witness ==
    /\ RevealReachedVerify /\ ~last.skip /\ last.failAt = NoFail
    /\ ~RevealVerifies(last.proposerIndex, last.epoch, last.reveal)
    /\ last.verifyCalls = 1
    /\ last.err = ErrInvalidSignature

\* C2: if a read that precedes the write of process_randao_reveal fails
\* (get_slot, validator_by_index, also for a proposer index out of range,
\* get_genesis_validators_root, get_randao_mix_at_index), the call returns an
\* error, the write does not execute and the mix vector is as before, with
\* validation skipped or not.
C2_FailedReadNoWrite ==
    (last.op = "reveal"
        /\ (last.failAt \in RevealReads
              \/ last.proposerIndex \notin DOMAIN Validators))
    => /\ last.err # Nil
       /\ last.updateCalls = 0
       /\ randaoMixes = last.pre

\* The last read fails after everything before it went through, validation
\* skipped.
C2_Witness ==
    /\ RevealReachedVerify /\ last.skip
    /\ last.failAt = FailGetRandaoMixAtIndex
    /\ last.err = ErrStore
    /\ last.pre[last.epoch % V] # GenesisMix

\* C3: process_randao_reveal with validation skipped never calls
\* verify_signature, and when the state accesses succeed it still sets the mix
\* at epoch mod V to the new mix, for a reveal that would not verify too.
C3_SkipNeverVerifies ==
    (last.op = "reveal" /\ last.skip)
    => /\ last.verifyCalls = 0
       /\ (last.failAt = NoFail /\ last.proposerIndex \in DOMAIN Validators)
            => /\ last.err = Nil
               /\ randaoMixes[last.epoch % V]
                    = buildRandaoMix(last.pre[last.epoch % V], last.reveal)

C3_Witness ==
    /\ last.op = "reveal" /\ last.skip /\ last.err = Nil
    /\ ~RevealVerifies(last.proposerIndex, last.epoch, last.reveal)
    /\ randaoMixes[last.epoch % V] # last.pre[last.epoch % V]

\* C4: after a successful process_randao_reveal the mix at index epoch mod V
\* is the mix that was at that same index before the call XOR SHA256(reveal);
\* the slot read is the slot written, and no other slot is written.
C4_RevealMixesInPlace ==
    (last.op = "reveal" /\ last.err = Nil)
    => /\ randaoMixes[last.epoch % V]
            = XorBytes(ZeroBytes32, last.pre[last.epoch % V], Sha256(last.reveal))
       /\ \A i \in Indices \ {last.epoch % V} : randaoMixes[i] = last.pre[i]

\* A successful reveal in the epoch that wraps to index 0.
C4_Witness ==
    /\ last.op = "reveal" /\ last.err = Nil
    /\ last.epoch = V
    /\ randaoMixes[0] # last.pre[0]

\* C5: after a successful process_randao_mixes_reset the mix at index
\* (epoch+1) mod V is the mix that was at index epoch mod V before the call,
\* the wrap from index V-1 to index 0 included, and for V > 1 the mix at
\* index epoch mod V is unchanged.
C5_ResetCarriesForward ==
    (last.op = "reset" /\ last.err = Nil)
    => /\ randaoMixes[(last.epoch + 1) % V] = last.pre[last.epoch % V]
       /\ V > 1 => randaoMixes[last.epoch % V] = last.pre[last.epoch % V]

\* The wrap: the mix of index V-1 is carried to index 0, which held another.
C5_Witness ==
    /\ last.op = "reset" /\ last.err = Nil
    /\ V > 1
    /\ last.epoch % V = V - 1
    /\ last.pre[0] # last.pre[V - 1]
    /\ randaoMixes[0] = last.pre[V - 1]

C10_ResetOverwritesUnconditionally ==
    (last.op = "reset" /\ last.failAt = NoFail)
    => /\ last.err = Nil
       /\ last.updateCalls = 1
       /\ writer[(last.epoch + 1) % V] = "reset"
       /\ last.pre[(last.epoch + 1) % V] # last.pre[last.epoch % V]
            => randaoMixes[(last.epoch + 1) % V] # last.pre[(last.epoch + 1) % V]

\* The reset overwrites a slot a reveal had written with another value.
C10_Witness ==
    /\ last.op = "reset" /\ last.err = Nil
    /\ last.preWriter[(last.epoch + 1) % V] = "reveal"
    /\ last.pre[(last.epoch + 1) % V] # last.pre[last.epoch % V]
    /\ randaoMixes[(last.epoch + 1) % V] = last.pre[last.epoch % V]

\* C7: build_mix(m, r) XOR SHA256(r) = m for every previous mix m and reveal
\* r, and the result is exactly 32 bytes.
C7_BuildMixSelfInverse ==
    mixOut # <<>>
    => /\ Len(mixOut) = RootLength
       /\ XorBytes(ZeroBytes32, mixOut, Sha256(revealIn)) = mixIn

C7_Witness ==
    /\ mixOut # <<>>
    /\ mixOut # mixIn
    /\ mixIn \notin MixInputs

\* C8: the output of compute_domain is 32 bytes, domain_type followed by the
\* first 28 bytes of the fork data root; two calls on one fork_data that
\* differ only in domain_type agree on the last 28 bytes and carry their own
\* domain_type in the first 4; the arguments are not modified.
C8_DomainLayout ==
    /\ \A i \in {1, 2} :
          domains.out[i] # <<>>
          => /\ Len(domains.out[i]) = 32
             /\ SubSeq(domains.out[i], 1, 4) = domainTypes[i]
             /\ SubSeq(domains.out[i], 5, 32)
                  = SubSeq(HashTreeRoot(forkData), 1, 28)
    /\ (domains.out[1] # <<>> /\ domains.out[2] # <<>>)
          => SubSeq(domains.out[1], 5, 32) = SubSeq(domains.out[2], 5, 32)
    /\ domains.out # << <<>>, <<>> >>
          => (forkData = domains.fd /\ domainTypes = domains.dts)

C8_Witness ==
    /\ domains.out[1] # <<>> /\ domains.out[2] # <<>>
    /\ domainTypes[1] # domainTypes[2]
    /\ domains.out[1] # domains.out[2]

=============================================================================
